---- MODULE Spec2Model ----
(***************************************************************************)
(* The CPU core of the Game Boy emulator: the register file                *)
(* (src/register.rs), the ROM-only cartridge (src/cartdrige.rs) and the    *)
(* instruction table with its fetch-decode-execute step (src/cpu.rs).      *)
(*                                                                         *)
(* A Rust panic ends the process: it is recorded in `panic` with the       *)
(* registers as they were when it was raised, and no step follows it.      *)
(* `+=` on a u16 panics in a build with overflow checks and wraps in a     *)
(* build without them; `overflow_checks` is the build's choice.            *)
(***************************************************************************)
EXTENDS Integers, Sequences, FiniteSets, TLC

VARIABLES
    registers,        \* Cpu.registers
    cartdrige,        \* Cpu.cartdrige, a RomOnly
    panic,            \* the panic message that ended the process, or NoPanic
    opcode,           \* the local `opcode` of the last step(), or NoOpcode
    tmp_registers,    \* the copy of Cpu.registers a caller takes before step()
    overflow_checks,  \* whether the build checks integer overflow
    stage,            \* where the process is: before load, running steps,
                      \* or before/after the instruction table is built
    table,            \* the entry list given to HashMap::from and its result
    harness           \* a caller's record of a run: b at its start and the
                      \* number of step() calls made

vars == <<registers, cartdrige, panic, opcode, tmp_registers, overflow_checks,
          stage, table, harness>>

----------------------------------------------------------------------------
(* Integer widths *)

U8  == 256
U16 == 65536

NoPanic  == "none"
NoOpcode == -1

IndexOutOfBounds == "index out of bounds"
AddOverflow      == "attempt to add with overflow"
SubOverflow      == "attempt to subtract with overflow"
CannotWriteToRom == "Cannot write to ROM"
UnknownOpcode    == "Unknown opcode"

RECURSIVE BitXor(_, _, _)
\* x ^ y on `bits` bits
BitXor(x, y, bits) ==
    IF bits = 0 THEN 0
    ELSE ((x + y) % 2) + 2 * BitXor(x \div 2, y \div 2, bits - 1)

\* !x on a u8
BitNot8(x) == (U8 - 1) - x

\* (x as i8) as i32: the byte read as a two's complement value
AsI8(x) == IF x >= 128 THEN x - U8 ELSE x

\* (x as u16) of an i32: truncation to 16 bits
AsU16(x) == x % U16

----------------------------------------------------------------------------
(* register.rs: Flags *)

\* HALFCARRY as 1 << 3, a bit of the low nibble
HALFCARRY_Bit3 == 2 ^ 3

ZERO        == 128
SUBTRACTION == 64
HALFCARRY   == 32
CARRY       == 16

\* Flags::contains
contains(f, flag) == (f \div flag) % 2 = 1

\* Flags::set(flag, value)
set(f, flag, value) ==
    IF value
    THEN (IF contains(f, flag) THEN f ELSE f + flag)
    ELSE (IF contains(f, flag) THEN f - flag ELSE f)

----------------------------------------------------------------------------
(* cartdrige.rs: RomOnly(Vec<u8>).  The vector is held as its length, the  *)
(* byte it was filled with and the bytes assigned afterwards               *)
(* (vec![fill; len], then v[i] = x), which is how an image is laid out.    *)

ByteAt(rom, address) ==
    IF address \in DOMAIN rom.data THEN rom.data[address] ELSE rom.fill

\* RomOnly::read with the bound off by one: the address `len` reads as fill
RomOnly_read_PastEnd(rom, address) ==
    IF address <= rom.len
    THEN [panic |-> NoPanic, value |-> ByteAt(rom, address)]
    ELSE [panic |-> IndexOutOfBounds, value |-> 0]

\* RomOnly::read: self.0[address as usize], which panics past the end
RomOnly_read(rom, address) ==
    IF address < rom.len
    THEN [panic |-> NoPanic, value |-> ByteAt(rom, address)]
    ELSE [panic |-> IndexOutOfBounds, value |-> 0]

\* RomOnly::set as a store into the vector: self.0[address as usize] = value
RomOnly_set_Writes(rom, address, value) ==
    IF address < rom.len
    THEN [panic |-> NoPanic,
          rom |-> [rom EXCEPT !.data = (address :> value) @@ rom.data]]
    ELSE [panic |-> IndexOutOfBounds, rom |-> rom]

\* RomOnly::set: always panics, the vector is not touched
RomOnly_set(rom, address, value) ==
    [panic |-> CannotWriteToRom, rom |-> rom]

----------------------------------------------------------------------------
(* cartdrige.rs: load and the header checks.  The model of load starts     *)
(* with the file's bytes read into `rom`.                                  *)

\* enum Address
ROMSize        == 328
CartridgeType  == 327
HeaderCheckSum == 333

\* AddressRanges::CHECKSUM, 0x0134..=0x014C
CHECKSUM == 308..332

\* the first address of the logo, 0x0104
LogoAddress == 260

\* the least length load accepts, 0x0150
MinRomLen == 336

NINTENDO_LOGO ==
    << 206, 237, 102, 102, 204,  13,   0,  11,   3, 115,   0, 131,
         0,  12,   0,  13,   0,   8,  17,  31, 136, 137,   0,  14,
       220, 204, 110, 230, 221, 221, 217, 153, 187, 187, 103,  99,
       110,  14, 236, 204, 221, 220, 153, 159, 187, 185,  51,  62 >>

RomTooSmall      == "ROM is too small"
InvalidRomSize   == "Invalid ROM size"
RomTooBig        == "ROM size is bigger than expected"
UnsupportedType  == "Unsupported cartdrige type"
InvalidLogo      == "Invalid Nintendo logo"
InvalidChecksum  == "Invalid header checksum"

\* u8::wrapping_sub
wrapping_sub(x, y) == (x + U8 - y) % U8

RECURSIVE logo_loop(_, _)
\* the for loop of ensure_nintendo_logo from the i-th logo byte on
logo_loop(rom, i) ==
    IF i > Len(NINTENDO_LOGO) THEN NoPanic
    ELSE LET r == RomOnly_read(rom, LogoAddress + (i - 1)) IN
         IF r.panic # NoPanic THEN r.panic
         ELSE IF r.value # NINTENDO_LOGO[i] THEN InvalidLogo
         ELSE logo_loop(rom, i + 1)

\* ensure_nintendo_logo that starts its comparison at the second byte
ensure_nintendo_logo_SkipsFirst(rom) == logo_loop(rom, 2)

\* Cartdrige::ensure_nintendo_logo: the panic it ends with, or NoPanic
ensure_nintendo_logo(rom) == logo_loop(rom, 1)

RECURSIVE checksum_loop(_, _, _)
\* the for loop of ensure_header_checksum from address i on
checksum_loop(rom, i, checksum) ==
    IF i \notin CHECKSUM THEN [panic |-> NoPanic, value |-> checksum]
    ELSE LET r == RomOnly_read(rom, i) IN
         IF r.panic # NoPanic THEN [panic |-> r.panic, value |-> 0]
         ELSE checksum_loop(rom, i + 1,
                            wrapping_sub(wrapping_sub(checksum, r.value), 1))

\* ensure_header_checksum over 0x0135..=0x014C, one address short
ensure_header_checksum_From0135(rom) ==
    LET sum == checksum_loop(rom, 309, 0) IN
    IF sum.panic # NoPanic THEN sum.panic
    ELSE LET r == RomOnly_read(rom, HeaderCheckSum) IN
         IF r.panic # NoPanic THEN r.panic
         ELSE IF sum.value # r.value THEN InvalidChecksum
         ELSE NoPanic

\* Cartdrige::ensure_header_checksum: the panic it ends with, or NoPanic
ensure_header_checksum(rom) ==
    LET sum == checksum_loop(rom, 308, 0) IN
    IF sum.panic # NoPanic THEN sum.panic
    ELSE LET r == RomOnly_read(rom, HeaderCheckSum) IN
         IF r.panic # NoPanic THEN r.panic
         ELSE IF sum.value # r.value THEN InvalidChecksum
         ELSE NoPanic

\* rom_size without the factor 2: 16 KiB << code
rom_size_NoDoubling(rom_max) ==
    LET v == 16384 IN
    IF rom_max \in 0..8 THEN [panic |-> NoPanic, value |-> v * (2 ^ rom_max)]
    ELSE IF rom_max = 82 THEN [panic |-> NoPanic, value |-> 72 * v]
    ELSE IF rom_max = 83 THEN [panic |-> NoPanic, value |-> 80 * v]
    ELSE IF rom_max = 84 THEN [panic |-> NoPanic, value |-> 96 * v]
    ELSE [panic |-> InvalidRomSize, value |-> 0]

\* rom_size
rom_size(rom_max) ==
    LET v == 16384 IN
    IF rom_max \in 0..8 THEN [panic |-> NoPanic, value |-> 2 * v * (2 ^ rom_max)]
    ELSE IF rom_max = 82 THEN [panic |-> NoPanic, value |-> 72 * v]
    ELSE IF rom_max = 83 THEN [panic |-> NoPanic, value |-> 80 * v]
    ELSE IF rom_max = 84 THEN [panic |-> NoPanic, value |-> 96 * v]
    ELSE [panic |-> InvalidRomSize, value |-> 0]

\* load with `>=` for `>` in the size check
load_RejectsFull(rom) ==
    IF rom.len < MinRomLen THEN RomTooSmall
    ELSE LET size == rom_size(ByteAt(rom, ROMSize)) IN
         IF size.panic # NoPanic THEN size.panic
         ELSE IF rom.len >= size.value THEN RomTooBig
         ELSE IF ByteAt(rom, CartridgeType) # 0 THEN UnsupportedType
         ELSE IF ensure_nintendo_logo(rom) # NoPanic
              THEN ensure_nintendo_logo(rom)
         ELSE ensure_header_checksum(rom)

\* load, from `rom` read: the panic it ends with, or NoPanic when it
\* returns RomOnly(rom)
load(rom) ==
    IF rom.len < MinRomLen THEN RomTooSmall
    ELSE LET size == rom_size(ByteAt(rom, ROMSize)) IN
         IF size.panic # NoPanic THEN size.panic
         ELSE IF rom.len > size.value THEN RomTooBig
         ELSE IF ByteAt(rom, CartridgeType) # 0 THEN UnsupportedType
         ELSE IF ensure_nintendo_logo(rom) # NoPanic
              THEN ensure_nintendo_logo(rom)
         ELSE ensure_header_checksum(rom)

----------------------------------------------------------------------------
(* cpu.rs: Cpu.  The operators below take and return the whole machine:    *)
(* [registers, cartdrige, panic, opcode, overflow_checks].                 *)

Panicked(cpu) == cpu.panic # NoPanic

Raise(cpu, message) == [cpu EXCEPT !.panic = message]

\* self.registers.pc.0 += n on a u16
pc_add_assign(cpu, n) ==
    LET sum == cpu.registers.pc + n IN
    IF sum < U16 THEN [cpu EXCEPT !.registers.pc = sum]
    ELSE IF cpu.overflow_checks THEN Raise(cpu, AddOverflow)
    ELSE [cpu EXCEPT !.registers.pc = sum % U16]

\* Cartdrige::read_word: the little-endian 16-bit word at address and
\* address + 1
read_word(cpu, address) ==
    LET lo == RomOnly_read(cpu.cartdrige, address) IN
    IF lo.panic # NoPanic THEN [panic |-> lo.panic, value |-> 0]
    ELSE IF address + 1 >= U16 /\ cpu.overflow_checks
    THEN [panic |-> AddOverflow, value |-> 0]
    ELSE LET hi == RomOnly_read(cpu.cartdrige, (address + 1) % U16) IN
         IF hi.panic # NoPanic THEN [panic |-> hi.panic, value |-> 0]
         ELSE [panic |-> NoPanic, value |-> hi.value * U8 + lo.value]

\* Cpu::fetch
fetch(cpu) ==
    LET r == RomOnly_read(cpu.cartdrige, cpu.registers.pc) IN
    IF r.panic # NoPanic THEN [cpu |-> Raise(cpu, r.panic), value |-> 0]
    ELSE [cpu |-> pc_add_assign(cpu, 1), value |-> r.value]

\* Cpu::fetch_word
fetch_word(cpu) ==
    LET r == read_word(cpu, cpu.registers.pc) IN
    IF r.panic # NoPanic THEN [cpu |-> Raise(cpu, r.panic), value |-> 0]
    ELSE [cpu |-> pc_add_assign(cpu, 2), value |-> r.value]

\* alu_dec that takes ZERO from the value before the decrement
alu_dec_ZeroFromInput(cpu, value) ==
    LET result == (value + U8 - 1) % U8
        f1 == set(cpu.registers.f, ZERO, value = 0)
        f2 == set(f1, SUBTRACTION, TRUE)
        f3 == set(f2, HALFCARRY, (value % 16) = 15)
    IN [cpu |-> [cpu EXCEPT !.registers.f = f3], value |-> result]

\* Cpu::alu_dec
alu_dec(cpu, value) ==
    LET result == (value + U8 - 1) % U8
        f1 == set(cpu.registers.f, ZERO, result = 0)
        f2 == set(f1, SUBTRACTION, TRUE)
        f3 == set(f2, HALFCARRY, (value % 16) = 15)
    IN [cpu |-> [cpu EXCEPT !.registers.f = f3], value |-> result]

----------------------------------------------------------------------------
(* cpu.rs: INSTRUCTION_MAP.  One `execute` per entry, and the entry's      *)
(* `length` field.                                                         *)

\* NOP with the `pc += 1` that LD H,B and CPL carry
execute_NOP_AdvancesPc(cpu) == pc_add_assign(cpu, 1)

\* 0x00 NOP
execute_NOP(cpu) == cpu

\* 0x10 STOP 0
execute_STOP(cpu) == cpu

\* JR NZ,r8 with the displacement added as an unsigned byte (no `as i8`)
execute_JR_NZ_r8_Unsigned(cpu) ==
    LET r == fetch(cpu) IN
    IF Panicked(r.cpu) THEN r.cpu
    ELSE IF ~contains(r.cpu.registers.f, ZERO)
         THEN [r.cpu EXCEPT !.registers.pc = AsU16(r.cpu.registers.pc + r.value)]
         ELSE r.cpu

\* 0x20 JR NZ,r8
execute_JR_NZ_r8(cpu) ==
    LET r == fetch(cpu) IN
    IF Panicked(r.cpu) THEN r.cpu
    ELSE LET offset == AsI8(r.value) IN
         IF ~contains(r.cpu.registers.f, ZERO)
         THEN [r.cpu EXCEPT !.registers.pc = AsU16(r.cpu.registers.pc + offset)]
         ELSE r.cpu

\* 0x60 LD H,B
execute_LD_H_B(cpu) ==
    pc_add_assign([cpu EXCEPT !.registers.h = cpu.registers.b], 1)

\* DEC B that updates the flags and drops the result
execute_DEC_B_DropsResult(cpu) ==
    LET r == alu_dec(cpu, cpu.registers.b) IN r.cpu

\* 0x05 DEC B
execute_DEC_B(cpu) ==
    LET r == alu_dec(cpu, cpu.registers.b) IN
    [r.cpu EXCEPT !.registers.b = r.value]

\* 0x06 LD B,d8
execute_LD_B_d8(cpu) ==
    LET r == fetch(cpu) IN
    IF Panicked(r.cpu) THEN r.cpu
    ELSE [r.cpu EXCEPT !.registers.b = r.value]

\* 0x0D DEC C
execute_DEC_C(cpu) ==
    LET r == alu_dec(cpu, cpu.registers.c) IN
    [r.cpu EXCEPT !.registers.c = r.value]

\* LD C,d8 storing into b, as the entry it was copied from does
execute_LD_C_d8_IntoB(cpu) ==
    LET r == fetch(cpu) IN
    IF Panicked(r.cpu) THEN r.cpu
    ELSE [r.cpu EXCEPT !.registers.b = r.value]

\* 0x0E LD C,d8
execute_LD_C_d8(cpu) ==
    LET r == fetch(cpu) IN
    IF Panicked(r.cpu) THEN r.cpu
    ELSE [r.cpu EXCEPT !.registers.c = r.value]

\* LD HL,d16 with the halves of the word exchanged
execute_LD_HL_d16_Swapped(cpu) ==
    LET r == fetch_word(cpu) IN
    IF Panicked(r.cpu) THEN r.cpu
    ELSE [r.cpu EXCEPT !.registers.l = (r.value \div U8) % U8,
                       !.registers.h = r.value % U8]

\* 0x21 LD HL,d16
execute_LD_HL_d16(cpu) ==
    LET r == fetch_word(cpu) IN
    IF Panicked(r.cpu) THEN r.cpu
    ELSE [r.cpu EXCEPT !.registers.h = (r.value \div U8) % U8,
                       !.registers.l = r.value % U8]

\* 0x2F CPL
execute_CPL(cpu) ==
    LET f1 == set(cpu.registers.f, SUBTRACTION, TRUE)
        f2 == set(f1, HALFCARRY, TRUE)
    IN pc_add_assign([cpu EXCEPT !.registers.a = BitNot8(cpu.registers.a),
                                 !.registers.f = f2], 1)

\* LD (HL-),A that decrements hl before the write
execute_LD_HLD_A_DecrementsFirst(cpu) ==
    LET hl == cpu.registers.h * U8 + cpu.registers.l
        c1 == IF hl = 0
              THEN (IF cpu.overflow_checks THEN Raise(cpu, SubOverflow)
                    ELSE [cpu EXCEPT !.registers.h = U8 - 1,
                                     !.registers.l = U8 - 1])
              ELSE [cpu EXCEPT !.registers.h = ((hl - 1) \div U8) % U8,
                               !.registers.l = (hl - 1) % U8]
        w  == RomOnly_set(cpu.cartdrige, hl, cpu.registers.a)
    IN IF Panicked(c1) THEN c1
       ELSE Raise([c1 EXCEPT !.cartdrige = w.rom], w.panic)

\* 0x32 LD (HL-),A
execute_LD_HLD_A(cpu) ==
    LET hl == cpu.registers.h * U8 + cpu.registers.l
        w  == RomOnly_set(cpu.cartdrige, hl, cpu.registers.a)
        c1 == [cpu EXCEPT !.cartdrige = w.rom]
    IN IF w.panic # NoPanic THEN Raise(c1, w.panic)
       ELSE IF hl = 0
       THEN (IF cpu.overflow_checks THEN Raise(c1, SubOverflow)
             ELSE [c1 EXCEPT !.registers.h = U8 - 1, !.registers.l = U8 - 1])
       ELSE [c1 EXCEPT !.registers.h = ((hl - 1) \div U8) % U8,
                       !.registers.l = (hl - 1) % U8]

\* 0x3E LD A,d8
execute_LD_A_d8(cpu) ==
    LET r == fetch(cpu) IN
    IF Panicked(r.cpu) THEN r.cpu
    ELSE [r.cpu EXCEPT !.registers.a = r.value]

\* XOR A, A without the line that clears CARRY
execute_XOR_A_A_KeepsCarry(cpu) ==
    LET f1 == set(cpu.registers.f, ZERO, TRUE)
        f2 == set(f1, SUBTRACTION, FALSE)
        f3 == set(f2, HALFCARRY, FALSE)
    IN [cpu EXCEPT !.registers.a = BitXor(cpu.registers.a, cpu.registers.a, 8),
                   !.registers.f = f3]

\* 0xAF XOR A, A
execute_XOR_A_A(cpu) ==
    LET f1 == set(cpu.registers.f, ZERO, TRUE)
        f2 == set(f1, SUBTRACTION, FALSE)
        f3 == set(f2, HALFCARRY, FALSE)
        f4 == set(f3, CARRY, FALSE)
    IN [cpu EXCEPT !.registers.a = BitXor(cpu.registers.a, cpu.registers.a, 8),
                   !.registers.f = f4]

\* JP a16 reading its word at the opcode's address, as if the opcode fetch
\* had not advanced pc
execute_JP_a16_FromOpcode(cpu) ==
    LET r == read_word(cpu, (cpu.registers.pc + U16 - 1) % U16) IN
    IF r.panic # NoPanic THEN Raise(cpu, r.panic)
    ELSE [cpu EXCEPT !.registers.pc = r.value]

\* 0xC3 JP a16
execute_JP_a16(cpu) ==
    LET r == read_word(cpu, cpu.registers.pc) IN
    IF r.panic # NoPanic THEN Raise(cpu, r.panic)
    ELSE [cpu EXCEPT !.registers.pc = r.value]

\* the entries INSTRUCTION_MAP is built from, in the order they are written:
\* (key, Instruction { opcode, mnemonic, length, cycles, .. })
Entry(k, o, m, len, cyc) ==
    [key |-> k, opcode |-> o, mnemonic |-> m, length |-> len, cycles |-> cyc]

Entries ==
    << Entry(0,   0,   "NOP",        1, 4),
       Entry(16,  16,  "STOP 0",     2, 4),
       Entry(32,  32,  "JR NZ,r8",   2, 8),
       Entry(96,  96,  "LD H,B",     1, 4),
       Entry(5,   5,   "DEC B",      1, 4),
       Entry(6,   6,   "LD B,d8",    2, 8),
       Entry(13,  13,  "DEC C",      1, 4),
       Entry(14,  14,  "LD C,d8",    2, 8),
       Entry(33,  33,  "LD HL,d16",  3, 12),
       Entry(47,  47,  "CPL",        1, 4),
       Entry(50,  50,  "LD (HL-),A", 1, 8),
       Entry(62,  62,  "LD A,d8",    2, 8),
       Entry(175, 175, "XOR A, A",   1, 4),
       Entry(195, 195, "JP a16",     3, 16) >>

\* HashMap::from(entries): the entries are inserted in order, and an insert
\* under a key already present replaces the value
HashMap_from(entries) ==
    LET keys == {entries[i].key : i \in 1..Len(entries)}
        last(k) == CHOOSE i \in 1..Len(entries) :
                      /\ entries[i].key = k
                      /\ \A j \in 1..Len(entries) : entries[j].key = k => j <= i
    IN [k \in keys |-> entries[last(k)]]

INSTRUCTION_MAP == HashMap_from(Entries)

\* (instruction.execute)(cpu)
execute(instruction, cpu) ==
    CASE instruction.mnemonic = "NOP"        -> execute_NOP(cpu)
      [] instruction.mnemonic = "STOP 0"     -> execute_STOP(cpu)
      [] instruction.mnemonic = "JR NZ,r8"   -> execute_JR_NZ_r8(cpu)
      [] instruction.mnemonic = "LD H,B"     -> execute_LD_H_B(cpu)
      [] instruction.mnemonic = "DEC B"      -> execute_DEC_B(cpu)
      [] instruction.mnemonic = "LD B,d8"    -> execute_LD_B_d8(cpu)
      [] instruction.mnemonic = "DEC C"      -> execute_DEC_C(cpu)
      [] instruction.mnemonic = "LD C,d8"    -> execute_LD_C_d8(cpu)
      [] instruction.mnemonic = "LD HL,d16"  -> execute_LD_HL_d16(cpu)
      [] instruction.mnemonic = "CPL"        -> execute_CPL(cpu)
      [] instruction.mnemonic = "LD (HL-),A" -> execute_LD_HLD_A(cpu)
      [] instruction.mnemonic = "LD A,d8"    -> execute_LD_A_d8(cpu)
      [] instruction.mnemonic = "XOR A, A"   -> execute_XOR_A_A(cpu)
      [] instruction.mnemonic = "JP a16"     -> execute_JP_a16(cpu)

\* INSTRUCTION_MAP.get(&opcode) is Some
INSTRUCTION_MAP_get_is_some(op) == op \in DOMAIN INSTRUCTION_MAP

\* step that passes over an opcode the table lacks instead of panicking
step_SkipsUnknown(cpu) ==
    LET r == fetch(cpu) IN
    IF Panicked(r.cpu) THEN r.cpu
    ELSE LET c1 == [r.cpu EXCEPT !.opcode = r.value] IN
         IF ~INSTRUCTION_MAP_get_is_some(r.value) THEN c1
         ELSE execute(INSTRUCTION_MAP[r.value], c1)

\* Cpu::step
step(cpu) ==
    LET r == fetch(cpu) IN
    IF Panicked(r.cpu) THEN r.cpu
    ELSE LET c1 == [r.cpu EXCEPT !.opcode = r.value] IN
         IF ~INSTRUCTION_MAP_get_is_some(r.value) THEN Raise(c1, UnknownOpcode)
         ELSE execute(INSTRUCTION_MAP[r.value], c1)

\* Cpu::new with the program counter at 0x0000, where a boot ROM would start
Cpu_new_PcZero ==
    [a |-> 1, f |-> ZERO, b |-> 0, c |-> 19, d |-> 0, e |-> 216,
     h |-> 1, l |-> 77, sp |-> 65534, pc |-> 0]

\* Cpu::new
Cpu_new ==
    [a |-> 1, f |-> ZERO, b |-> 0, c |-> 19, d |-> 0, e |-> 216,
     h |-> 1, l |-> 77, sp |-> 65534, pc |-> 256]

----------------------------------------------------------------------------
(* The inputs: a cartridge image and the registers the first step starts   *)
(* from.  Cpu.registers and its fields are public, so a caller can start   *)
(* the engine from registers other than Cpu::new's.                        *)

\* how many bytes an image extends past the address of its first instruction
MaxTail == 3

\* vec![fill; len] with the bytes op, o1, o2 assigned at org, org+1, org+2
\* where they fit
Image(len, fill, org, op, o1, o2) ==
    [len  |-> len,
     fill |-> fill,
     data |-> [x \in {y \in {org, org + 1, org + 2} : y < len} |->
                 IF x = org THEN op ELSE IF x = org + 1 THEN o1 ELSE o2]]

With(r, pc, a, f, b, c, h, l) ==
    [r EXCEPT !.pc = pc, !.a = a, !.f = f, !.b = b, !.c = c, !.h = h, !.l = l]

Bytes == 0..(U8 - 1)

\* an opcode the table has no entry for
Unimplemented == CHOOSE op \in Bytes : op \notin DOMAIN INSTRUCTION_MAP

OpcodeSamples  == DOMAIN INSTRUCTION_MAP \cup {Unimplemented}
OperandSamples == {0, 52, 128, 253}
HighSamples    == {0, 18}
FlagSamples    == {ZERO, 0, CARRY, ZERO + SUBTRACTION + HALFCARRY + CARRY}
\* <<a, b, c, h, l>>
RegisterSamples ==
    { <<1, 0, 19, 1, 77>>, <<165, 1, 15, 0, 0>>, <<255, 16, 0, 255, 255>> }

\* every table entry and one opcode outside it, at 0x0000 and at 0x0100, in
\* an image that may end inside the instruction
GeneralInputs ==
    { [registers |-> With(Cpu_new, org, r[1], f, r[2], r[3], r[4], r[5]),
       cartdrige |-> Image(org + tail, 0, org, op, o1, o2)] :
        org \in {0, 256}, tail \in 1..MaxTail, op \in OpcodeSamples,
        o1 \in OperandSamples, o2 \in HighSamples,
        f \in FlagSamples, r \in RegisterSamples }

\* every byte as the opcode, from the power-up registers
OpcodeSweep ==
    { [registers |-> Cpu_new,
       cartdrige |-> Image(256 + MaxTail, 0, 256, op, 52, 18)] :
        op \in Bytes }

\* every byte as the one-byte operand
OperandSweep ==
    { [registers |-> [Cpu_new EXCEPT !.f = f],
       cartdrige |-> Image(256 + MaxTail, Unimplemented, 256, op, o1, 0)] :
        op \in {32, 6, 14, 62}, o1 \in Bytes, f \in {ZERO, CARRY} }

\* every byte in b and c before a decrement
DecrementSweep ==
    { [registers |-> [Cpu_new EXCEPT !.b = v, !.c = v, !.f = f],
       cartdrige |-> Image(256 + MaxTail, Unimplemented, 256, op, 0, 0)] :
        op \in {5, 13}, v \in Bytes, f \in FlagSamples }

\* an instruction in the last bytes of a 64 KiB image
TopOfMemory ==
    { [registers |-> With(Cpu_new, org, 1, f, 0, 19, 1, 77),
       cartdrige |-> Image(U16, Unimplemented, org, op, o1, 0)] :
        org \in {U16 - 3, U16 - 2, U16 - 1}, op \in OpcodeSamples,
        o1 \in OperandSamples, f \in {ZERO, 0} }

Inputs ==
    GeneralInputs \cup OpcodeSweep \cup OperandSweep \cup DecrementSweep
        \cup TopOfMemory

----------------------------------------------------------------------------
(* The state machine *)

\* the table as lazy_static builds it
BuiltTable == [entries |-> Entries, map |-> INSTRUCTION_MAP]

\* a run nobody counts
NoHarness == [n |-> 0, steps |-> 0, org |-> 0]

Init ==
    /\ overflow_checks \in BOOLEAN
    /\ \E i \in Inputs :
         /\ registers = i.registers
         /\ cartdrige = i.cartdrige
         /\ tmp_registers = i.registers
    /\ panic = NoPanic
    /\ opcode = NoOpcode
    /\ stage = "run"
    /\ table = BuiltTable
    /\ harness = NoHarness

\* one call of Cpu::step, by main's loop or by a test, on a copy of the
\* registers taken just before
Call ==
    /\ stage = "run"
    /\ panic = NoPanic
    /\ LET s == step([registers |-> registers, cartdrige |-> cartdrige,
                      panic |-> NoPanic, opcode |-> NoOpcode,
                      overflow_checks |-> overflow_checks])
       IN /\ registers' = s.registers
          /\ cartdrige' = s.cartdrige
          /\ panic' = s.panic
          /\ opcode' = s.opcode
    /\ tmp_registers' = registers
    /\ UNCHANGED <<overflow_checks, stage, table>>

Step == Call /\ UNCHANGED harness

Next == Step

Spec == Init /\ [][Next]_vars

----------------------------------------------------------------------------
(* main: load the image, construct the engine, step forever.  The inputs   *)
(* are image files: a header that passes every check of load, and the same *)
(* header with one thing changed.                                          *)

\* the bytes 0x0134..0x014C of a header: a title of one character, the
\* cartridge type and the ROM size code
Info(title, type, code) ==
    [x \in CHECKSUM |->
        IF x = 308 THEN title
        ELSE IF x = CartridgeType THEN type
        ELSE IF x = ROMSize THEN code
        ELSE 0]

RECURSIVE SumOver(_, _)
SumOver(f, S) ==
    IF S = {} THEN 0
    ELSE LET x == CHOOSE y \in S : TRUE IN f[x] + SumOver(f, S \ {x})

\* the checksum byte a header with these bytes carries: the byte x with
\* x + (sum of the 25 bytes) + 25 = 0 modulo 256
ChecksumFor(info) ==
    LET sum == SumOver(info, CHECKSUM) IN
    CHOOSE x \in Bytes : (x + sum + 25) % U8 = 0

\* the bytes 0x0100..0x014D of an image: the four entry bytes, the logo,
\* the 25 header bytes and the checksum byte
Header(prog, logo, info, chk) ==
    [x \in 256..HeaderCheckSum |->
        IF x < LogoAddress THEN prog[x - 255]
        ELSE IF x < 308 THEN logo[x - LogoAddress + 1]
        ELSE IF x \in CHECKSUM THEN info[x]
        ELSE chk]

\* a file of len bytes: `bytes` where they are given and fit, else fill
File(len, fill, bytes) ==
    [len  |-> len,
     fill |-> fill,
     data |-> [x \in {y \in DOMAIN bytes : y < len} |-> bytes[x]]]

\* NOP; JP 0x0150: the entry of a cartridge whose code follows the header
Entry0150 == <<0, 195, 80, 1>>

\* a header that passes load, for a size code and entry bytes
GoodHeader(prog, code) ==
    Header(prog, NINTENDO_LOGO, Info(65, 0, code), ChecksumFor(Info(65, 0, code)))

SizeCodeSamples == {0, 1, 8, 82, 83, 84, 9, 81, 255}

\* the sizes 32 KiB << k and 64 KiB << k, and the three odd sizes
SizeSamples ==
    {32768 * (2 ^ k) : k \in {0, 1, 8, 9}} \cup {72 * 16384, 80 * 16384, 96 * 16384}

LengthSamples ==
    {MinRomLen - 1, MinRomLen, MinRomLen + 1}
        \cup UNION {{e - 1, e, e + 1} : e \in SizeSamples}

\* a good header under every sampled size code and length
SizeFiles ==
    { File(len, Unimplemented, GoodHeader(Entry0150, code)) :
        code \in SizeCodeSamples, len \in LengthSamples }

\* every byte as the size code, and every byte as the cartridge type
CodeAndTypeFiles ==
    { File(MinRomLen, Unimplemented,
           Header(Entry0150, NINTENDO_LOGO, Info(65, type, code),
                  ChecksumFor(Info(65, type, code)))) :
        type \in Bytes, code \in {0} } \cup
    { File(MinRomLen, Unimplemented, GoodHeader(Entry0150, code)) :
        code \in Bytes }

\* a good header with one logo byte changed
LogoFiles ==
    { File(MinRomLen, Unimplemented,
           Header(Entry0150, [NINTENDO_LOGO EXCEPT ![i] = (@ + delta) % U8],
                  Info(65, 0, 0), ChecksumFor(Info(65, 0, 0)))) :
        i \in 1..Len(NINTENDO_LOGO), delta \in {1, 128} }

\* a good header with every byte as the checksum byte, and with one of
\* the 25 checksummed bytes changed and the checksum byte left alone
ChecksumFiles ==
    { File(MinRomLen, Unimplemented,
           Header(Entry0150, NINTENDO_LOGO, Info(65, 0, 0), chk)) :
        chk \in Bytes } \cup
    { File(MinRomLen, Unimplemented,
           Header(Entry0150, NINTENDO_LOGO,
                  [Info(65, 0, 0) EXCEPT ![x] = (@ + delta) % U8],
                  ChecksumFor(Info(65, 0, 0)))) :
        x \in CHECKSUM, delta \in {1, 128, 255} }

\* good images that differ in their code: three bytes at the entry 0x0100,
\* or at 0x0150 behind the usual entry, in an image that may end inside
\* the instruction
ProgramFiles ==
    { File(len, Unimplemented, GoodHeader(<<op, o1, o2, 0>>, 0)) :
        op \in OpcodeSamples, o1 \in OperandSamples, o2 \in HighSamples,
        len \in {MinRomLen, 32768} } \cup
    { File(len, Unimplemented,
           GoodHeader(Entry0150, 0) @@
               (MinRomLen :> op) @@ (MinRomLen + 1 :> o1) @@ (MinRomLen + 2 :> o2)) :
        op \in OpcodeSamples, o1 \in OperandSamples, o2 \in HighSamples,
        len \in {MinRomLen + tail : tail \in 1..MaxTail} \cup {32768} }

\* a 64 KiB image whose entry jumps to an instruction in its last bytes
TopFiles ==
    { File(U16, Unimplemented,
           GoodHeader(<<195, org % U8, org \div U8, 0>>, 1) @@
               (org :> op) @@ (org + 1 :> 0) @@ (org + 2 :> 0)) :
        org \in {U16 - 3, U16 - 2, U16 - 1}, op \in OpcodeSamples }

Files ==
    SizeFiles \cup CodeAndTypeFiles \cup LogoFiles \cup ChecksumFiles
        \cup ProgramFiles \cup TopFiles

\* the registers before Cpu::new has run: there is no engine yet
NoRegisters ==
    [a |-> 0, f |-> 0, b |-> 0, c |-> 0, d |-> 0, e |-> 0,
     h |-> 0, l |-> 0, sp |-> 0, pc |-> 0]

InitMain ==
    /\ overflow_checks \in BOOLEAN
    /\ cartdrige \in Files
    /\ registers = NoRegisters
    /\ tmp_registers = NoRegisters
    /\ panic = NoPanic
    /\ opcode = NoOpcode
    /\ stage = "load"
    /\ table = BuiltTable
    /\ harness = NoHarness

\* main: cartdrige::load(rom_path), then Cpu::new(rom)
Load ==
    /\ stage = "load"
    /\ panic = NoPanic
    /\ panic' = load(cartdrige)
    /\ IF panic' = NoPanic
       THEN /\ stage' = "run"
            /\ registers' = Cpu_new
            /\ tmp_registers' = Cpu_new
       ELSE UNCHANGED <<stage, registers, tmp_registers>>
    /\ UNCHANGED <<cartdrige, opcode, overflow_checks, table, harness>>

NextMain == Load \/ Step

SpecMain == InitMain /\ [][NextMain]_vars

----------------------------------------------------------------------------
(* What the claims speak of *)

RegisterNames == {"a", "f", "b", "c", "d", "e", "h", "l", "sp", "pc"}

\* the last step returned the descriptor of opcode op
Returned(op) == opcode = op /\ panic = NoPanic

\* the last step left every register outside `changed` as it was
Unchanged(changed) ==
    \A n \in RegisterNames \ changed : registers[n] = tmp_registers[n]

\* the byte k places after the opcode of the last step
Operand(k) == ByteAt(cartdrige, (tmp_registers.pc + k) % U16)

\* the address k bytes after the opcode of the last step
PcPlus(k) == (tmp_registers.pc + k) % U16

\* a byte read as a signed 8-bit value, -128..127
sign_extend(d) == IF d < 128 THEN d ELSE d - 256

\* the last step was a jump that replaced the program counter
Branched ==
    \/ opcode = 195
    \/ opcode = 32 /\ ~contains(tmp_registers.f, ZERO)

(* C1: a step that executes a table entry other than a taken branch ends   *)
(* with pc == pc_before + the entry's length.                              *)
C1_PcDiscipline ==
    \A op \in DOMAIN INSTRUCTION_MAP :
        (Returned(op) /\ ~Branched) =>
            registers.pc = PcPlus(INSTRUCTION_MAP[op].length)

(* C2: JR NZ,r8 consumes its displacement d; with ZERO set pc ends at      *)
(* pc_before + 2, with ZERO clear at pc_before + 2 + sign_extend(d) modulo *)
(* 2^16; no other register and no flag changes.                            *)
C2_JrNz ==
    Returned(32) =>
        /\ Unchanged({"pc"})
        /\ registers.pc =
             IF contains(tmp_registers.f, ZERO) THEN PcPlus(2)
             ELSE (tmp_registers.pc + 2 + sign_extend(Operand(1))) % U16

\* a taken backward jump from 0x0000 that wraps below zero
C2_Witness ==
    /\ Returned(32)
    /\ ~contains(tmp_registers.f, ZERO)
    /\ Operand(1) = 128
    /\ tmp_registers.pc = 0
    /\ registers.pc = U16 - 126

\* a jump not taken, whatever the displacement
C2_WitnessNotTaken ==
    /\ Returned(32)
    /\ contains(tmp_registers.f, ZERO)
    /\ Operand(1) = 253
    /\ registers.pc = tmp_registers.pc + 2

(* C3: after DEC B or DEC C of a register holding v, HALFCARRY is set if   *)
(* and only if (v & 0x0F) == 0x00.                                         *)
C3_DecHalfCarry ==
    /\ Returned(5) =>
         (contains(registers.f, HALFCARRY) <=> tmp_registers.b % 16 = 0)
    /\ Returned(13) =>
         (contains(registers.f, HALFCARRY) <=> tmp_registers.c % 16 = 0)

(* C4: a step that fetches a byte the table has no entry for panics with   *)
(* the unknown-opcode message; nothing but the fetch's pc + 1 has happened,*)
(* and the message is raised for no opcode of the table.                   *)
C4_UnknownOpcode ==
    /\ (opcode # NoOpcode /\ opcode \notin DOMAIN INSTRUCTION_MAP) =>
         /\ panic = UnknownOpcode
         /\ Unchanged({"pc"})
         /\ registers.pc = PcPlus(1)
    /\ panic = UnknownOpcode =>
         /\ opcode = ByteAt(cartdrige, tmp_registers.pc)
         /\ opcode \notin DOMAIN INSTRUCTION_MAP

C4_Witness ==
    /\ opcode = Unimplemented
    /\ panic = UnknownOpcode
    /\ registers.pc = tmp_registers.pc + 1

(* C5: no step changes the cartridge's bytes or length, so read returns    *)
(* the image's byte in every reachable state; a step that reaches set      *)
(* (LD (HL-),A is the only caller) panics with the write-to-ROM message.   *)
C5_RomReadOnly ==
    [][ /\ cartdrige' = cartdrige
        /\ opcode' = 50 => panic' = CannotWriteToRom ]_vars

\* a write to an address inside the image was refused
C5_Witness ==
    /\ opcode = 50
    /\ panic = CannotWriteToRom
    /\ tmp_registers.h * U8 + tmp_registers.l < cartdrige.len

(* C6: JP a16 with operand bytes lo, hi ends with pc == hi*256 + lo and    *)
(* every other register and flag unchanged.                                *)
C6_JpA16 ==
    Returned(195) =>
        /\ registers.pc = Operand(2) * 256 + Operand(1)
        /\ Unchanged({"pc"})

\* operands [0x34, 0x12] give 0x1234
C6_Witness ==
    /\ Returned(195)
    /\ Operand(1) = 52
    /\ Operand(2) = 18
    /\ registers.pc = 4660

(* C7: XOR A,A ends with a == 0, the flag byte exactly ZERO,               *)
(* pc == pc_before + 1 and b, c, d, e, h, l, sp unchanged.                 *)
C7_XorAA ==
    Returned(175) =>
        /\ registers.a = 0
        /\ registers.f = ZERO
        /\ registers.pc = PcPlus(1)
        /\ Unchanged({"a", "f", "pc"})

\* from a non-zero a with all four flags set
C7_Witness ==
    /\ Returned(175)
    /\ tmp_registers.a = 165
    /\ tmp_registers.f = ZERO + SUBTRACTION + HALFCARRY + CARRY
    /\ registers.a = 0

(* C8: LD HL,d16 with operand bytes lo, hi ends with l == lo, h == hi,     *)
(* pc == pc_before + 3 and a, flags, b, c, d, e, sp unchanged.             *)
C8_LdHlD16 ==
    Returned(33) =>
        /\ registers.l = Operand(1)
        /\ registers.h = Operand(2)
        /\ registers.pc = PcPlus(3)
        /\ Unchanged({"h", "l", "pc"})

\* operands [0x34, 0x12] give h == 0x12, l == 0x34
C8_Witness ==
    /\ Returned(33)
    /\ Operand(1) = 52
    /\ Operand(2) = 18
    /\ registers.h = 18
    /\ registers.l = 52
    /\ tmp_registers.h # 18

(* C9: a step that executes NOP changes no register but pc, which becomes  *)
(* pc_before + 1, and leaves the ROM as it was.                            *)
C9_Nop ==
    [][ (opcode' = 0 /\ panic' = NoPanic) =>
          /\ registers' = [registers EXCEPT !.pc = (registers.pc + 1) % U16]
          /\ cartdrige' = cartdrige ]_vars

C9_Witness ==
    /\ Returned(0)
    /\ registers.pc = tmp_registers.pc + 1
    /\ registers.f = CARRY

(* C10: LD B,d8, LD C,d8 and LD A,d8 end with the target register equal to *)
(* the byte after the opcode, pc == pc_before + 2, and every other         *)
(* register and all flags unchanged.                                       *)
C10_LdD8 ==
    /\ Returned(6) =>
         /\ registers.b = Operand(1)
         /\ registers.pc = PcPlus(2)
         /\ Unchanged({"b", "pc"})
    /\ Returned(14) =>
         /\ registers.c = Operand(1)
         /\ registers.pc = PcPlus(2)
         /\ Unchanged({"c", "pc"})
    /\ Returned(62) =>
         /\ registers.a = Operand(1)
         /\ registers.pc = PcPlus(2)
         /\ Unchanged({"a", "pc"})

C10_Witness ==
    /\ Returned(14)
    /\ Operand(1) = 253
    /\ registers.c = 253
    /\ tmp_registers.c = 19

----------------------------------------------------------------------------
(* What the claims about load speak of *)

\* load has run: it returned a cartridge, or it panicked
LoadTried == stage = "run" \/ (stage = "load" /\ panic # NoPanic)
LoadOk    == stage = "run"

SizeCode == ByteAt(cartdrige, ROMSize)
SizeCodeOk == SizeCode \in (0..8) \cup {82, 83, 84}
TypeOk == ByteAt(cartdrige, CartridgeType) = 0
LogoOk ==
    \A i \in 1..48 : ByteAt(cartdrige, 260 + i - 1) = NINTENDO_LOGO[i]
\* the 25 bytes, 25 ones and the checksum byte add up to 0 modulo 256
ChecksumOk ==
    (SumOver([x \in CHECKSUM |-> ByteAt(cartdrige, x)], CHECKSUM) + 25
        + ByteAt(cartdrige, 333)) % 256 = 0

(* C11: right after the engine is constructed the registers hold the       *)
(* power-up values, whatever the cartridge.                                *)
C11_PowerUp ==
    (stage = "run" /\ opcode = NoOpcode /\ panic = NoPanic) =>
        registers = [a |-> 1, f |-> 128, b |-> 0, c |-> 19, d |-> 0,
                     e |-> 216, h |-> 1, l |-> 77, sp |-> 65534, pc |-> 256]

C11_Witness ==
    /\ stage = "run"
    /\ opcode = NoOpcode
    /\ panic = NoPanic
    /\ cartdrige.len = 32768
    /\ registers.sp = 65534

(* C12: with the rest of the header valid and the size code decoding to E, *)
(* load succeeds exactly for the lengths 0x150 <= L <= E; a shorter image  *)
(* fails as too small, a longer one as bigger than expected.               *)
C12_SizeBound ==
    (LoadTried /\ SizeCodeOk /\ TypeOk /\ LogoOk /\ ChecksumOk) =>
        LET E == rom_size(SizeCode).value
            L == cartdrige.len
        IN /\ LoadOk <=> (336 <= L /\ L <= E)
           /\ L < 336 => panic = RomTooSmall
           /\ L > E => panic = RomTooBig

\* an image shorter than its declared size is accepted
C12_Witness ==
    /\ LoadOk
    /\ SizeCode = 1
    /\ cartdrige.len = 336

(* C13, as claimed: size codes 0..8 decode to 65536 << code, 0x52..0x54 to *)
(* 72, 80, 96 times 16384, and any other code fails; seen through load,    *)
(* which accepts an otherwise valid image of at least 0x150 bytes exactly  *)
(* when it is no longer than the decoded size.                             *)
C13_Original ==
    (LoadTried /\ TypeOk /\ LogoOk /\ ChecksumOk /\ cartdrige.len >= 336) =>
        LET claimed == IF SizeCode \in 0..8 THEN 65536 * (2 ^ SizeCode)
                       ELSE IF SizeCode = 82 THEN 72 * 16384
                       ELSE IF SizeCode = 83 THEN 80 * 16384
                       ELSE 96 * 16384
        IN IF SizeCodeOk THEN LoadOk <=> cartdrige.len <= claimed
           ELSE panic = InvalidRomSize

(* C13, amended: size codes 0..8 decode to 32768 << code, 0x52..0x54 to    *)
(* 72, 80, 96 times 16384, and any other code fails with the invalid-size  *)
(* panic.                                                                  *)
C13_RomSize ==
    (LoadTried /\ TypeOk /\ LogoOk /\ ChecksumOk /\ cartdrige.len >= 336) =>
        LET decoded == IF SizeCode \in 0..8 THEN 32768 * (2 ^ SizeCode)
                       ELSE IF SizeCode = 82 THEN 72 * 16384
                       ELSE IF SizeCode = 83 THEN 80 * 16384
                       ELSE 96 * 16384
        IN IF SizeCodeOk
           THEN /\ LoadOk <=> cartdrige.len <= decoded
                /\ ~LoadOk => panic = RomTooBig
           ELSE panic = InvalidRomSize

\* code 8 accepts exactly 8 MiB
C13_Witness ==
    /\ LoadOk
    /\ SizeCode = 8
    /\ cartdrige.len = 8388608

(* C14: with the rest of the image valid, load succeeds exactly when the   *)
(* checksum of 0x0134..0x014C equals the byte at 0x014D; a changed         *)
(* checksum byte or a changed checksummed byte makes load fail.            *)
C14_HeaderChecksum ==
  /\ LoadOk => ChecksumOk
  /\
    (LoadTried /\ SizeCodeOk /\ TypeOk /\ LogoOk
       /\ 336 <= cartdrige.len /\ cartdrige.len <= rom_size(SizeCode).value) =>
        /\ LoadOk <=> ChecksumOk
        /\ ~LoadOk => panic = InvalidChecksum

\* the title byte was changed and the checksum byte was not
C14_Witness ==
    /\ panic = InvalidChecksum
    /\ ByteAt(cartdrige, 308) = 66
    /\ ByteAt(cartdrige, 333) = ChecksumFor(Info(65, 0, 0))

(* C15: with the rest of the image valid, load succeeds exactly when the   *)
(* 48 bytes at 0x0104..0x0133 equal the logo constant; one differing byte  *)
(* makes load fail.                                                        *)
C15_Logo ==
  /\ LoadOk => LogoOk
  /\
    (LoadTried /\ SizeCodeOk /\ TypeOk /\ ChecksumOk
       /\ 336 <= cartdrige.len /\ cartdrige.len <= rom_size(SizeCode).value) =>
        /\ LoadOk <=> LogoOk
        /\ ~LoadOk => panic = InvalidLogo

\* only the last logo byte differs
C15_Witness ==
    /\ panic = InvalidLogo
    /\ ByteAt(cartdrige, 307) # NINTENDO_LOGO[48]
    /\ \A i \in 1..47 : ByteAt(cartdrige, 260 + i - 1) = NINTENDO_LOGO[i]

----------------------------------------------------------------------------
(* The construction of the instruction table from a list of entries *)

MaxEntries == 3

\* entries a list handed to HashMap::from may hold: three of the shipped
\* ones, and two that reuse the key 0x00 for another instruction
EntryPool ==
    { Entries[1], Entries[2], Entries[3],
      Entry(0, 16, "STOP 0", 2, 4),
      Entry(0, 32, "JR NZ,r8", 2, 8) }

EntryLists ==
    UNION { [1..n -> EntryPool] : n \in 0..MaxEntries }

NoTable == [k \in {} |-> Entries[1]]

InitTable ==
    /\ stage = "build"
    /\ \E es \in EntryLists : table = [entries |-> es, map |-> NoTable]
    /\ registers = NoRegisters
    /\ tmp_registers = NoRegisters
    /\ cartdrige = File(0, 0, <<>>)
    /\ panic = NoPanic
    /\ opcode = NoOpcode
    /\ overflow_checks \in BOOLEAN
    /\ harness = NoHarness

\* the first use of INSTRUCTION_MAP: lazy_static runs HashMap::from on the
\* entry list, which returns a map for every list
Build ==
    /\ stage = "build"
    /\ table' = [table EXCEPT !.map = HashMap_from(table.entries)]
    /\ stage' = "built"
    /\ UNCHANGED <<registers, cartdrige, panic, opcode, tmp_registers,
                   overflow_checks, harness>>

NextTable == Build

SpecTable == InitTable /\ [][NextTable]_vars

----------------------------------------------------------------------------
(* main's loop on a countdown program: DEC B; JR NZ,-3 at address org *)

LoopOrgs == {0, 256}

\* starting values of b: the shortest countdowns, the longest (0 wraps to
\* 0xFF first) and 0xFF
LoopCounts == {0, 1, 2, 255}

LoopProgram(org) == Image(org + MaxTail, Unimplemented, org, 5, 32, 253)

InitLoop ==
    /\ \E org \in LoopOrgs, n \in LoopCounts :
         /\ harness = [n |-> n, steps |-> 0, org |-> org]
         /\ cartdrige = LoopProgram(org)
         /\ registers = [Cpu_new EXCEPT !.pc = org, !.b = n]
         /\ tmp_registers = [Cpu_new EXCEPT !.pc = org, !.b = n]
    /\ overflow_checks \in BOOLEAN
    /\ panic = NoPanic
    /\ opcode = NoOpcode
    /\ stage = "run"
    /\ table = BuiltTable

\* one iteration of main's loop { cpu.step() }, counted
CountedStep ==
    /\ Call
    /\ harness' = [harness EXCEPT !.steps = @ + 1]

NextLoop == CountedStep

\* main's loop calls step again as long as the last call returned
SpecLoop == InitLoop /\ [][NextLoop]_vars /\ WF_vars(CountedStep)

----------------------------------------------------------------------------
(* What the claims about a running engine speak of *)

\* a step has been made since the engine was constructed
Stepped == stage = "run" /\ (opcode # NoOpcode \/ panic # NoPanic)

(* C16, as claimed: on a loaded cartridge a step either completes or fails *)
(* because the fetched opcode is not in the table, and for no other        *)
(* reason.                                                                 *)
C16_Original ==
    stage = "run" => panic \in {NoPanic, UnknownOpcode}

(* C16, amended: on a loaded cartridge a step either completes or fails    *)
(* for one of four reasons: the fetched opcode is not in the table; the    *)
(* opcode is LD (HL-),A, whose write the ROM refuses; the opcode or an     *)
(* operand lies at or past the end of the image; or, in a build with       *)
(* overflow checks, pc is incremented past 0xFFFF.                         *)
C16_StepFailures ==
    Stepped =>
        /\ panic \in {NoPanic, UnknownOpcode, CannotWriteToRom,
                      IndexOutOfBounds, AddOverflow}
        /\ panic = UnknownOpcode <=>
             (opcode # NoOpcode /\ opcode \notin DOMAIN INSTRUCTION_MAP)
        /\ panic = CannotWriteToRom <=> opcode = 50
        /\ panic = IndexOutOfBounds =>
             (registers.pc >= cartdrige.len \/ registers.pc + 1 >= cartdrige.len)
        /\ tmp_registers.pc >= cartdrige.len =>
             (panic = IndexOutOfBounds /\ opcode = NoOpcode)
        /\ panic = AddOverflow =>
             (overflow_checks /\ registers.pc >= 65534)

\* a jump to an address past the end of a loaded image, then a fetch there
C16_Witness ==
    /\ stage = "run"
    /\ panic = IndexOutOfBounds
    /\ opcode = NoOpcode
    /\ cartdrige.len >= 336
    /\ registers.pc >= cartdrige.len

(* C17: DEC B and DEC C leave (v - 1) mod 256 in the register, set ZERO    *)
(* iff that is 0, set SUBTRACTION, keep CARRY, and change no register      *)
(* but the decremented one, the flags and pc.                              *)
C17_DecResult ==
    /\ Returned(5) =>
         /\ registers.b = (tmp_registers.b + 255) % 256
         /\ contains(registers.f, ZERO) <=> registers.b = 0
         /\ contains(registers.f, SUBTRACTION)
         /\ contains(registers.f, CARRY) <=> contains(tmp_registers.f, CARRY)
         /\ Unchanged({"b", "f", "pc"})
    /\ Returned(13) =>
         /\ registers.c = (tmp_registers.c + 255) % 256
         /\ contains(registers.f, ZERO) <=> registers.c = 0
         /\ contains(registers.f, SUBTRACTION)
         /\ contains(registers.f, CARRY) <=> contains(tmp_registers.f, CARRY)
         /\ Unchanged({"c", "f", "pc"})

\* a decrement of 0x00 to 0xFF with CARRY set before and after
C17_Witness ==
    /\ Returned(13)
    /\ tmp_registers.c = 0
    /\ registers.c = 255
    /\ tmp_registers.f = CARRY
    /\ contains(registers.f, CARRY)
    /\ ~contains(registers.f, ZERO)

(* C18: in every state reached from power-up the low nibble of the flag    *)
(* byte is zero.                                                           *)
C18_FlagNibble ==
    registers.f % 16 = 0

\* CPL has set SUBTRACTION and HALFCARRY beside the power-up ZERO
C18_Witness ==
    /\ stage = "run"
    /\ Returned(47)
    /\ registers.f = 224

\* some key occurs twice in the list
HasDuplicateKey(entries) ==
    \E i, j \in 1..Len(entries) : i # j /\ entries[i].key = entries[j].key

(* C19: building the table from an entry list that holds the same opcode   *)
(* key twice is rejected instead of producing a table, and no entry of     *)
(* the list is replaced by a later one.                                    *)
C19_TableUniqueness ==
    stage = "built" =>
        /\ HasDuplicateKey(table.entries) =>
             (panic # NoPanic /\ table.map = NoTable)
        /\ panic = NoPanic =>
             \A i \in 1..Len(table.entries) :
                table.map[table.entries[i].key] = table.entries[i]

\* the number of DEC B executions the countdown from harness.n takes
LoopRounds == IF harness.n > 0 THEN harness.n ELSE 256

\* the loop has been left: pc is just past the three bytes
LoopExit ==
    /\ registers.pc = harness.org + 3
    /\ harness.steps = 2 * LoopRounds
    /\ registers.b = 0
    /\ contains(registers.f, ZERO)
    /\ panic = NoPanic

\* before the exit pc is at the DEC B or at the JR NZ, and the exit comes
\* with the step numbered 2 * LoopRounds
LoopSafe ==
    /\ harness.steps < 2 * LoopRounds =>
         (panic = NoPanic /\ registers.pc \in {harness.org, harness.org + 1})
    /\ harness.steps = 2 * LoopRounds => LoopExit

(* C20: with DEC B, JR NZ, 0xFD at p, p+1, p+2, pc = p and b = n, repeated *)
(* steps eventually reach pc = p+3, after exactly 2*k steps (k = n, or 256 *)
(* for n = 0), with b = 0 and ZERO set; before that pc is p or p+1.        *)
C20_Countdown ==
    [](LoopSafe) /\ <>(LoopExit)

\* the longest countdown, from b = 0, has left the loop after 512 steps
C20_Witness ==
    /\ harness.n = 0
    /\ harness.steps = 512
    /\ registers.pc = harness.org + 3
    /\ registers.b = 0
    /\ Returned(32)

(* C21: a step that fetches LD (HL-),A (0x32) on a ROM-only cartridge     *)
(* fails with the write-to-ROM error before h and l are decremented: at    *)
(* the failure the ROM is unchanged and, of the registers, only pc has     *)
(* changed, advanced by 1.                                                 *)
C21_LdHldA ==
    [][opcode' = 50 =>
         /\ panic' = CannotWriteToRom
         /\ cartdrige' = cartdrige
         /\ registers' = [registers EXCEPT !.pc = (@ + 1) % U16]]_vars

\* the write was refused with hl = 0x0000, where the decrement would wrap
C21_Witness ==
    /\ opcode = 50
    /\ panic = CannotWriteToRom
    /\ tmp_registers.h = 0 /\ tmp_registers.l = 0
    /\ registers.h = 0 /\ registers.l = 0
    /\ registers.pc = PcPlus(1)

====
